---- MODULE Spec2Model ----
(***************************************************************************)
(* Model of the invitation metrics backend: the deterministic generator    *)
(* (src/unipile/mock.ts), the UTC date utilities (src/lib/date.ts), the     *)
(* Firestore helpers (src/lib/firestore.ts) and the request handler        *)
(* (src/routes/metrics.ts).                                                 *)
(*                                                                         *)
(* JavaScript strings are sequences of character codes.  A Date is a       *)
(* record [nan, t] where t counts minutes since 1970-01-01T00:00Z (every    *)
(* instant the program builds has zero seconds and milliseconds).          *)
(***************************************************************************)
EXTENDS Integers, Sequences, FiniteSets, TLC

\* ------------------------------------------------------------------------
\* Strings
\* ------------------------------------------------------------------------

Dash == <<45>>

Digit(n) == 48 + n

IsDigit(c) == c >= 48 /\ c <= 57

Pad2(n) == <<Digit((n \div 10) % 10), Digit(n % 10)>>

Pad4(n) == <<Digit((n \div 1000) % 10), Digit((n \div 100) % 10),
             Digit((n \div 10) % 10), Digit(n % 10)>>

\* Value of the decimal digits s[i..j].
RECURSIVE NumAt(_, _, _)
NumAt(s, i, j) == IF j < i THEN 0 ELSE NumAt(s, i, j - 1) * 10 + (s[j] - 48)

\* a < b in code-unit order (String.prototype.localeCompare on ASCII
\* timestamps, and Firestore's ordering of string fields).
RECURSIVE StrLess(_, _)
StrLess(a, b) ==
    IF b = <<>> THEN FALSE
    ELSE IF a = <<>> THEN TRUE
    ELSE IF Head(a) # Head(b) THEN Head(a) < Head(b)
    ELSE StrLess(Tail(a), Tail(b))

StrLeq(a, b) == a = b \/ StrLess(a, b)

\* date.replace(/-/g, '')
RemoveDashes(s) == SelectSeq(s, LAMBDA c : c # 45)

\* ------------------------------------------------------------------------
\* simpleHash (mock.ts).  A 32-bit word is the pair <<hi, lo>> of its 16-bit
\* halves, so that no intermediate value leaves the 32-bit integers of TLC.
\* ------------------------------------------------------------------------

Half == 65536

\* hash = ((hash << 5) - hash) + char; hash = hash & hash
HashStep(h, c) ==
    LET t == h[2] * 31 + c
    IN  <<(h[1] * 31 + (t \div Half)) % Half, t % Half>>

\* the loop over str from position i on, with accumulator h
RECURSIVE HashLoop(_, _, _)
HashLoop(h, str, i) ==
    IF i > Len(str) THEN h
    ELSE LET next == HashStep(h, str[i])
         IN  IF next[1] >= 0 THEN HashLoop(next, str, i + 1) ELSE next

\* variant: the absolute value is taken in 32 bits, where -2^31 is its own
\* negation; a negative word has a negative first half
Abs32_Int32(h) ==
    IF h[1] < 32768 THEN h
    ELSE IF h = <<32768, 0>> THEN <<0 - 32768, 0>>
    ELSE <<(Half - 1) - h[1] + (IF h[2] = 0 THEN 1 ELSE 0), (Half - h[2]) % Half>>

\* Math.abs of the signed 32-bit word; the result is in 0 .. 2^31.
Abs32(h) ==
    IF h[1] < 32768 THEN h
    ELSE <<(Half - 1) - h[1] + (IF h[2] = 0 THEN 1 ELSE 0), (Half - h[2]) % Half>>

simpleHash(str) == Abs32(HashLoop(<<0, 0>>, str, 1))

\* hash % m for a small modulus m
HashMod(h, m) == ((h[1] % m) * (Half % m) + h[2]) % m

Base36Digit(d) == IF d < 10 THEN 48 + d ELSE 97 + (d - 10)

\* hash.toString(36)
RECURSIVE Base36(_)
Base36(h) ==
    LET t  == (h[1] % 36) * Half + h[2]
        q  == <<h[1] \div 36, t \div 36>>
        r  == t % 36
    IN  IF q = <<0, 0>> THEN <<Base36Digit(r)>>
        ELSE Append(Base36(q), Base36Digit(r))

\* ------------------------------------------------------------------------
\* Dates (date.ts and the built-in Date it is written on)
\* ------------------------------------------------------------------------

MinPerDay == 1440

NaNDate == [nan |-> TRUE, t |-> 0]

MkDate(t) == [nan |-> FALSE, t |-> t]

\* Day number of the civil date (y, m, d), d counted on from the first of
\* the month as Date.UTC / setUTCDate do (MakeDay).
DaysFromCivil(y, m, d) ==
    LET yy  == IF m <= 2 THEN y - 1 ELSE y
        era == yy \div 400
        yoe == yy - era * 400
        mp  == IF m > 2 THEN m - 3 ELSE m + 9
        doy == (153 * mp + 2) \div 5 + d - 1
        doe == yoe * 365 + yoe \div 4 - yoe \div 100 + doy
    IN  era * 146097 + doe - 719468

\* <<year, month, day>> of a day number (YearFromTime, MonthFromTime,
\* DateFromTime).
CivilFromDays(z) ==
    LET zz  == z + 719468
        era == zz \div 146097
        doe == zz - era * 146097
        yoe == (doe - doe \div 1460 + doe \div 36524 - doe \div 146096) \div 365
        doy == doe - (365 * yoe + yoe \div 4 - yoe \div 100)
        mp  == (5 * doy + 2) \div 153
        d   == doy - (153 * mp + 2) \div 5 + 1
        m   == IF mp < 10 THEN mp + 3 ELSE mp - 9
        y   == yoe + era * 400
    IN  <<IF m <= 2 THEN y + 1 ELSE y, m, d>>

\* /^\d{4}-\d{2}-\d{2}$/
MatchesDatePattern(s) ==
    /\ Len(s) = 10
    /\ \A i \in {1, 2, 3, 4, 6, 7, 9, 10} : IsDigit(s[i])
    /\ s[5] = 45 /\ s[8] = 45

TimeSuffix == <<84, 48, 48, 58, 48, 48, 58, 48, 48, 46, 48, 48, 48, 90>>

\* new Date(s) for s of the shape YYYY-MM-DDTHH:MM:00.000Z.  The engine
\* accepts month 1..12 and day 1..31 whatever the month and lets the day
\* run over into the next month; anything else is an Invalid Date.
ParseISO(s) ==
    IF /\ Len(s) = 24
       /\ MatchesDatePattern(SubSeq(s, 1, 10))
       /\ s[11] = 84 /\ s[14] = 58 /\ s[17] = 58
       /\ \A i \in {12, 13, 15, 16} : IsDigit(s[i])
       /\ SubSeq(s, 18, 24) = SubSeq(TimeSuffix, 8, 14)
    THEN LET y  == NumAt(s, 1, 4)
             m  == NumAt(s, 6, 7)
             d  == NumAt(s, 9, 10)
             hh == NumAt(s, 12, 13)
             mm == NumAt(s, 15, 16)
         IN  IF m >= 1 /\ m <= 12 /\ d >= 1 /\ d <= 31 /\ hh <= 23 /\ mm <= 59
             THEN MkDate(DaysFromCivil(y, m, d) * MinPerDay + hh * 60 + mm)
             ELSE NaNDate
    ELSE NaNDate

\* date.toISOString(); defined for valid dates only (an Invalid Date makes
\* it throw a RangeError, see Throws*)
toISOString(date) ==
    LET days == date.t \div MinPerDay
        rest == date.t % MinPerDay
        c    == CivilFromDays(days)
    IN  Pad4(c[1]) \o Dash \o Pad2(c[2]) \o Dash \o Pad2(c[3])
        \o <<84>> \o Pad2(rest \div 60) \o <<58>> \o Pad2(rest % 60)
        \o SubSeq(TimeSuffix, 7, 14)

\* s.split('T')[0]
BeforeT(s) ==
    LET idx == {i \in 1..Len(s) : s[i] = 84}
    IN  IF idx = {} THEN s
        ELSE SubSeq(s, 1, (CHOOSE i \in idx : \A j \in idx : i <= j) - 1)

toISODateUTC(date) == BeforeT(toISOString(date))

fromISODateUTC(isoDate) == ParseISO(isoDate \o TimeSuffix)

\* result.setUTCDate(result.getUTCDate() + days)
addDaysUTC(date, days) ==
    IF date.nan THEN NaNDate
    ELSE LET c == CivilFromDays(date.t \div MinPerDay)
         IN  MkDate(DaysFromCivil(c[1], c[2], c[3] + days) * MinPerDay
                    + (date.t % MinPerDay))

\* result.setUTCHours(0, 0, 0, 0)
startOfDayUTC(date) ==
    IF date.nan THEN NaNDate ELSE MkDate((date.t \div MinPerDay) * MinPerDay)

\* a <= b on Dates (false when either is an Invalid Date)
DateLeq(a, b) == ~a.nan /\ ~b.nan /\ a.t <= b.t

DateGt(a, b) == ~a.nan /\ ~b.nan /\ a.t > b.t

RECURSIVE DaysLoop(_, _)
DaysLoop(current, end) ==
    IF DateLeq(current, end)
    THEN <<toISODateUTC(current)>> \o DaysLoop(addDaysUTC(current, 1), end)
    ELSE <<>>

eachDayInclusive(fromDate, toDate) ==
    DaysLoop(fromISODateUTC(fromDate), fromISODateUTC(toDate))

\* isValidISODate raises (toISOString of an Invalid Date) instead of
\* returning
ThrowsIsValidISODate(dateString) ==
    MatchesDatePattern(dateString) /\ fromISODateUTC(dateString).nan

\* the value isValidISODate returns when it returns
isValidISODate(dateString) ==
    IF ~MatchesDatePattern(dateString) THEN FALSE
    ELSE toISODateUTC(fromISODateUTC(dateString)) = dateString

\* ------------------------------------------------------------------------
\* Deterministic generator (mock.ts)
\* ------------------------------------------------------------------------

\* n.toString() for n >= 0
RECURSIVE DecStr(_)
DecStr(n) == IF n < 10 THEN <<Digit(n)>> ELSE Append(DecStr(n \div 10), Digit(n % 10))

InvPrefix == <<105, 110, 118, 95>>

SenderUnderscore == <<115, 101, 110, 100, 101, 114, 95>>

SenderDash == <<115, 101, 110, 100, 101, 114, 45>>

HourDash == <<104, 111, 117, 114, 45>>

MinuteDash == <<109, 105, 110, 117, 116, 101, 45>>

getDailyInvitationCount(tenantId, accountId, date) ==
    HashMod(simpleHash(tenantId \o Dash \o accountId \o Dash \o date), 6)

\* the invitation built by one iteration of the loop, i counted from 0
MockInvitation(tenantId, accountId, date, i) ==
    LET seed   == tenantId \o Dash \o accountId \o Dash \o date \o Dash \o DecStr(i)
        hash   == simpleHash(seed)
        hour   == HashMod(simpleHash(HourDash \o seed), 24)
        minute == HashMod(simpleHash(MinuteDash \o seed), 60)
    IN  [externalId |-> InvPrefix \o Base36(hash) \o <<95>> \o RemoveDashes(date)
                        \o <<95>> \o DecStr(i),
         senderId   |-> SenderUnderscore \o Base36(simpleHash(SenderDash \o seed)),
         receivedAt |-> date \o <<84>> \o Pad2(hour) \o <<58>> \o Pad2(minute)
                        \o SubSeq(TimeSuffix, 7, 14)]

generateInvitationsForDay(tenantId, accountId, date, count) ==
    [k \in 1..count |-> MockInvitation(tenantId, accountId, date, k - 1)]

\* allInvitations.sort((a, b) => a.receivedAt.localeCompare(b.receivedAt)):
\* a stable sort, here by insertion
RECURSIVE InsertByReceivedAt(_, _)
InsertByReceivedAt(sorted, x) ==
    IF sorted = <<>> THEN <<x>>
    ELSE IF StrLess(x.receivedAt, Head(sorted).receivedAt) THEN <<x>> \o sorted
    ELSE <<Head(sorted)>> \o InsertByReceivedAt(Tail(sorted), x)

RECURSIVE SortByReceivedAt(_)
SortByReceivedAt(xs) ==
    IF xs = <<>> THEN <<>>
    ELSE InsertByReceivedAt(SortByReceivedAt(SubSeq(xs, 1, Len(xs) - 1)), xs[Len(xs)])

RECURSIVE GenerateDays(_, _, _)
GenerateDays(tenantId, accountId, days) ==
    IF days = <<>> THEN <<>>
    ELSE generateInvitationsForDay(tenantId, accountId, Head(days),
             getDailyInvitationCount(tenantId, accountId, Head(days)))
         \o GenerateDays(tenantId, accountId, Tail(days))

\* variant: the events are returned in the order they were generated
mockFetchInvitations_Unsorted(tenantId, accountId, fromISO, toISO) ==
    GenerateDays(tenantId, accountId, eachDayInclusive(fromISO, toISO))

mockFetchInvitations(tenantId, accountId, fromISO, toISO) ==
    SortByReceivedAt(GenerateDays(tenantId, accountId, eachDayInclusive(fromISO, toISO)))

\* ------------------------------------------------------------------------
\* Firestore helpers (lib/firestore.ts).  A collection is a function from
\* document id to document.
\* ------------------------------------------------------------------------

\* set(docRef, data, { merge: true }): fields of data replace those of the
\* stored document, the other stored fields stay
MergeDoc(old, new) ==
    [f \in DOMAIN old \cup DOMAIN new |-> IF f \in DOMAIN new THEN new[f] ELSE old[f]]

\* variant: addDoc, every write makes a document under a fresh id
SetMerge_AutoId(coll, id, data) ==
    LET fresh == id \o <<35>> \o DecStr(Cardinality(DOMAIN coll))
    IN  [k \in DOMAIN coll \cup {fresh} |-> IF k = fresh THEN data ELSE coll[k]]

SetMerge(coll, id, data) ==
    [k \in DOMAIN coll \cup {id} |->
        IF k = id
        THEN (IF id \in DOMAIN coll THEN MergeDoc(coll[id], data) ELSE data)
        ELSE coll[k]]

\* variant: the batch adds its documents beside the stored ones
RECURSIVE writeRawInvitations_AddDoc(_, _)
writeRawInvitations_AddDoc(coll, invs) ==
    IF invs = <<>> THEN coll
    ELSE writeRawInvitations_AddDoc(
             SetMerge(coll, Head(invs).externalId \o <<35>> \o DecStr(Cardinality(DOMAIN coll)),
                      Head(invs)),
             Tail(invs))

\* the invitations collection after the batch of writeRawInvitations commits
RECURSIVE writeRawInvitations(_, _)
writeRawInvitations(coll, invs) ==
    IF invs = <<>> THEN coll
    ELSE writeRawInvitations(SetMerge(coll, Head(invs).externalId, Head(invs)), Tail(invs))

\* elements of a set of strings in ascending order
RECURSIVE SortedStrings(_)
SortedStrings(S) ==
    IF S = {} THEN <<>>
    ELSE LET m == CHOOSE x \in S : \A y \in S : StrLeq(x, y)
         IN  <<m>> \o SortedStrings(S \ {m})

\* variant: the upper bound of the query is inclusive
QuerySnapshot_Inclusive(coll, tenantId, accountId, fromDate, toDate) ==
    LET fromTimestamp == startOfDayUTC(fromISODateUTC(fromDate))
        toTimestamp   == startOfDayUTC(addDaysUTC(fromISODateUTC(toDate), 1))
        lower         == toISOString(fromTimestamp)
        upper         == toISOString(toTimestamp)
    IN  {id \in DOMAIN coll :
            /\ coll[id].tenantId = tenantId
            /\ coll[id].accountId = accountId
            /\ StrLeq(lower, coll[id].receivedAt)
            /\ StrLeq(coll[id].receivedAt, upper)}

\* ids of the documents the query of queryInvitationsByDateRange selects
QuerySnapshot(coll, tenantId, accountId, fromDate, toDate) ==
    LET fromTimestamp == startOfDayUTC(fromISODateUTC(fromDate))
        toTimestamp   == startOfDayUTC(addDaysUTC(fromISODateUTC(toDate), 1))
        lower         == toISOString(fromTimestamp)
        upper         == toISOString(toTimestamp)
    IN  {id \in DOMAIN coll :
            /\ coll[id].tenantId = tenantId
            /\ coll[id].accountId = accountId
            /\ StrLeq(lower, coll[id].receivedAt)
            /\ StrLess(coll[id].receivedAt, upper)}

\* the array of {date, count} the function resolves to (the snapshot is in
\* receivedAt order, so dates are met in ascending order)
queryInvitationsByDateRange(coll, tenantId, accountId, fromDate, toDate) ==
    LET snapshot == QuerySnapshot(coll, tenantId, accountId, fromDate, toDate)
        dateOf(id) == toISODateUTC(ParseISO(coll[id].receivedAt))
        dates    == SortedStrings({dateOf(id) : id \in snapshot})
    IN  [k \in 1..Len(dates) |->
            [date  |-> dates[k],
             count |-> Cardinality({id \in snapshot : dateOf(id) = dates[k]})]]

RECURSIVE SumCounts(_)
SumCounts(results) ==
    IF results = <<>> THEN 0 ELSE Head(results).count + SumCounts(Tail(results))

getTotalInvitationsInPeriod(coll, tenantId, accountId, fromDate, toDate) ==
    SumCounts(queryInvitationsByDateRange(coll, tenantId, accountId, fromDate, toDate))

MetricsSlash == <<109, 101, 116, 114, 105, 99, 115, 47>>

SlashAccountsSlash == <<47, 97, 99, 99, 111, 117, 110, 116, 115, 47>>

SlashDailySlash == <<47, 100, 97, 105, 108, 121, 47>>

\* `metrics/${tenantId}/accounts/${accountId}/daily/${rollup.date}`
RollupPath(tenantId, accountId, date) ==
    MetricsSlash \o tenantId \o SlashAccountsSlash \o accountId \o SlashDailySlash \o date

\* variant: the collection is rewritten, only the rollups of the batch stay
writeDailyRollups_Rewrite(coll, tenantId, accountId, rollups, now) ==
    [p \in {RollupPath(tenantId, accountId, rollups[k].date) : k \in 1..Len(rollups)} |->
        LET k == CHOOSE j \in 1..Len(rollups) :
                     RollupPath(tenantId, accountId, rollups[j].date) = p
        IN  [date             |-> rollups[k].date,
             invitationsCount |-> rollups[k].invitationsCount,
             status           |-> rollups[k].status,
             updatedAt        |-> now]]

\* variant: the batch adds the day's count to the stored one
RECURSIVE writeDailyRollups_Increment(_, _, _, _, _)
writeDailyRollups_Increment(coll, tenantId, accountId, rollups, now) ==
    IF rollups = <<>> THEN coll
    ELSE LET path == RollupPath(tenantId, accountId, Head(rollups).date)
             old  == IF path \in DOMAIN coll THEN coll[path].invitationsCount ELSE 0
         IN  writeDailyRollups_Increment(
                 SetMerge(coll, path,
                          [date             |-> Head(rollups).date,
                           invitationsCount |-> old + Head(rollups).invitationsCount,
                           status           |-> Head(rollups).status,
                           updatedAt        |-> now]),
                 tenantId, accountId, Tail(rollups), now)

\* the metrics collection after the batch of writeDailyRollups commits at
\* time now
RECURSIVE writeDailyRollups(_, _, _, _, _)
writeDailyRollups(coll, tenantId, accountId, rollups, now) ==
    IF rollups = <<>> THEN coll
    ELSE writeDailyRollups(
             SetMerge(coll, RollupPath(tenantId, accountId, Head(rollups).date),
                      [date             |-> Head(rollups).date,
                       invitationsCount |-> Head(rollups).invitationsCount,
                       status           |-> Head(rollups).status,
                       updatedAt        |-> now]),
             tenantId, accountId, Tail(rollups), now)

\* ------------------------------------------------------------------------
\* Request handler (routes/metrics.ts)
\* ------------------------------------------------------------------------

\* JavaScript values a query parameter can hold
Undefined == [type |-> "undefined", str |-> <<>>]

Str(s) == [type |-> "string", str |-> s]

\* a parameter given twice parses to an array
ArrayValue == [type |-> "object", str |-> <<>>]

Truthy(v) == v.type = "object" \/ (v.type = "string" /\ v.str # <<>>)

\* !x || typeof x !== 'string'
MissingOrNotString(v) == ~Truthy(v) \/ v.type # "string"

\* outcome "ok", "invalid" (returns {valid: false, error}) or "throw" (the
\* RangeError of isValidISODate leaves the function)
validateQueryParams(q) ==
    IF MissingOrNotString(q.tenantId)
    THEN [outcome |-> "invalid", error |-> "tenantId is required and must be a string"]
    ELSE IF MissingOrNotString(q.accountId)
    THEN [outcome |-> "invalid", error |-> "accountId is required and must be a string"]
    ELSE IF MissingOrNotString(q.from)
    THEN [outcome |-> "invalid",
          error |-> "from is required and must be a string in YYYY-MM-DD format"]
    ELSE IF MissingOrNotString(q.to)
    THEN [outcome |-> "invalid",
          error |-> "to is required and must be a string in YYYY-MM-DD format"]
    ELSE IF ThrowsIsValidISODate(q.from.str)
    THEN [outcome |-> "throw", error |-> "Invalid time value"]
    ELSE IF ~isValidISODate(q.from.str)
    THEN [outcome |-> "invalid", error |-> "from must be a valid date in YYYY-MM-DD format"]
    ELSE IF ThrowsIsValidISODate(q.to.str)
    THEN [outcome |-> "throw", error |-> "Invalid time value"]
    ELSE IF ~isValidISODate(q.to.str)
    THEN [outcome |-> "invalid", error |-> "to must be a valid date in YYYY-MM-DD format"]
    ELSE IF DateGt(fromISODateUTC(q.from.str), fromISODateUTC(q.to.str))
    THEN [outcome |-> "invalid", error |-> "from date must be less than or equal to to date"]
    ELSE [outcome |-> "ok", error |-> ""]

\* actualCountsMap.get(date) || 0 over the array the query resolved to
CountFor(results, date) ==
    LET hits == {k \in 1..Len(results) : results[k].date = date}
    IN  IF hits = {} THEN 0 ELSE results[CHOOSE k \in hits : \A j \in hits : j <= k].count

\* variant: only the days the query returned are kept
createZeroFilledCounts_NoFill(dateRange, results) ==
    LET kept == SelectSeq(dateRange, LAMBDA d : \E k \in 1..Len(results) : results[k].date = d)
    IN  [k \in 1..Len(kept) |-> [date |-> kept[k], count |-> CountFor(results, kept[k])]]

\* the zero-filled Map, in insertion order
createZeroFilledCounts(dateRange, results) ==
    [k \in 1..Len(dateRange) |->
        [date |-> dateRange[k], count |-> CountFor(results, dateRange[k])]]

\* mockInvitations.map(invitation => ({tenantId, accountId, externalId, receivedAt}))
RawInvitations(tenantId, accountId, mock) ==
    [k \in 1..Len(mock) |->
        [tenantId   |-> tenantId,
         accountId  |-> accountId,
         externalId |-> mock[k].externalId,
         receivedAt |-> mock[k].receivedAt]]

\* Array.from(zeroFilledCounts.entries()).map(([date, count]) => ({...}))
RollupsOf(zeroFilled) ==
    [k \in 1..Len(zeroFilled) |->
        [date |-> zeroFilled[k].date,
         invitationsCount |-> zeroFilled[k].count,
         status |-> "ok"]]

\* variant: the window reaches back 30 days
previousFromISO_Month(from) == toISODateUTC(addDaysUTC(fromISODateUTC(from), -30))

previousFromISO(from) == toISODateUTC(addDaysUTC(fromISODateUTC(from), -7))

previousToISO(from) == toISODateUTC(addDaysUTC(fromISODateUTC(from), -1))

\* variant: the comparison is attached to every element
ResponseData_OnAll(zeroFilled, previousPeriodComparison) ==
    [k \in 1..Len(zeroFilled) |->
        [date |-> zeroFilled[k].date, value |-> zeroFilled[k].count, status |-> "ok",
         previousPeriodComparison |-> previousPeriodComparison]]

\* the array passed to res.json
ResponseData(zeroFilled, previousPeriodComparison) ==
    [k \in 1..Len(zeroFilled) |->
        IF k = 1
        THEN [date |-> zeroFilled[k].date, value |-> zeroFilled[k].count, status |-> "ok",
              previousPeriodComparison |-> previousPeriodComparison]
        ELSE [date |-> zeroFilled[k].date, value |-> zeroFilled[k].count, status |-> "ok"]]

\* ------------------------------------------------------------------------
\* Inputs
\* ------------------------------------------------------------------------

\* at most this many requests are received in one behaviour
MaxRuns == 2

\* the handler invocations that can be in flight together
Reqs == {"r1", "r2"}

\* "5r" and "74" hash alike; both get an invitation at 2025-03-01T00:00Z.
\* "a0" gets one at 2025-02-28T00:00Z.
Tenant5r == <<53, 114>>

Tenant74 == <<55, 52>>

TenantA0 == <<97, 48>>

\* "bu" gets two on 2025-02-28, the later one generated first
TenantBu == <<98, 117>>

\* "a1"
AccountA1 == <<97, 49>>

DateStr(y, m, d) == Pad4(y) \o Dash \o Pad2(m) \o Dash \o Pad2(d)

Day1 == DateStr(2025, 2, 28)

Day2 == DateStr(2025, 3, 1)

\* "garbage"
Garbage == <<103, 97, 114, 98, 97, 103, 101>>

Query(t, a, f, to) == [tenantId |-> t, accountId |-> a, from |-> f, to |-> to]

\* ranges that end on Day2: one day for "5r", two days for "74" and "bu",
\* both for "a0"
ValidQueries ==
    {Query(Str(Tenant5r), Str(AccountA1), Str(Day2), Str(Day2)),
     Query(Str(Tenant74), Str(AccountA1), Str(Day1), Str(Day2)),
     Query(Str(TenantA0), Str(AccountA1), Str(Day1), Str(Day2)),
     Query(Str(TenantA0), Str(AccountA1), Str(Day2), Str(Day2)),
     Query(Str(TenantBu), Str(AccountA1), Str(Day1), Str(Day2))}

\* day 30 of February runs over into March; day 32 and month 13 do not parse
BadDates == {Str(Garbage), Str(DateStr(2025, 2, 30)), Str(DateStr(2025, 2, 32)),
             Str(DateStr(2025, 13, 1))}

\* one parameter of a valid query replaced, or the range inverted
InvalidQueries ==
    LET t == Str(Tenant5r)
        a == Str(AccountA1)
    IN  {Query(Undefined, a, Str(Day1), Str(Day2)),
         Query(ArrayValue, a, Str(Day1), Str(Day2)),
         Query(t, Str(<<>>), Str(Day1), Str(Day2)),
         Query(t, a, Str(Day1), Undefined),
         Query(t, a, Str(Day2), Str(Day1))}
        \cup {Query(t, a, v, Str(Day2)) : v \in BadDates}
        \cup {Query(t, a, Str(Day1), Str(DateStr(2025, 3, 32)))}

Queries == ValidQueries \cup InvalidQueries

NoQuery == Query(Undefined, Undefined, Undefined, Undefined)

NoPeriod == [from |-> <<>>, to |-> <<>>]

\* validateQueryParams and the batch built from mockFetchInvitations are pure:
\* each is computed once per query
Validation == [q \in Queries |-> validateQueryParams(q)]

Fetched ==
    [q \in {x \in Queries : Validation[x].outcome = "ok"} |->
        mockFetchInvitations(q.tenantId.str, q.accountId.str, q.from.str, q.to.str)]

Generated ==
    [q \in {x \in Queries : Validation[x].outcome = "ok"} |->
        RawInvitations(q.tenantId.str, q.accountId.str,
            mockFetchInvitations(q.tenantId.str, q.accountId.str, q.from.str, q.to.str))]

\* ------------------------------------------------------------------------
\* State
\* ------------------------------------------------------------------------

VARIABLES
    invitations,       \* collection invitations/{externalId}
    metrics,           \* collection metrics/{tenant}/accounts/{account}/daily/{date}
    clock,             \* what new Date() reads
    runs,              \* requests received so far
    pc,                \* where each invocation is suspended
    query,             \* req.query
    mockInvitations,   \* local of the handler
    rawInvitations,    \* local of the handler
    invitationResults, \* local of the handler
    zeroFilledCounts,  \* local of the handler
    previousPeriod,    \* locals previousFromISO and previousToISO of the handler
    out,               \* the response sent by the last step, if it sent one
    pre,               \* history: the collections when the request arrived
    writes,            \* history: batches the invocation has committed
    alone,             \* history: no other invocation committed meanwhile
    conc,              \* history: who has been in flight meanwhile
    base,              \* history: the collections when the first of the
                       \* invocations in flight together for one query arrived
    prior,             \* history: the undisturbed run this one directly follows
    lastDone,          \* history: the last undisturbed run, until the next commit
    dayArgs,           \* tenantId, accountId and date of one generated day
    hashStr,           \* simpleHash: the parameter str
    hashIndex,         \* simpleHash: the loop variable i
    hashAcc,           \* simpleHash: the local hash
    dayInvitations     \* what was generated for the day, once it has been

store == <<invitations, metrics, clock>>

locals == <<query, mockInvitations, rawInvitations, invitationResults, zeroFilledCounts, previousPeriod>>

history == <<pre, writes, alone, conc, base, prior>>

generator == <<dayArgs, hashStr, hashIndex, hashAcc, dayInvitations>>

vars == <<invitations, metrics, clock, runs, pc, query, mockInvitations, rawInvitations,
          invitationResults, zeroFilledCounts, previousPeriod, out, pre, writes,
          alone, conc, base, prior, lastDone, dayArgs, hashStr, hashIndex, hashAcc,
          dayInvitations>>

EmptyColl == [k \in {} |-> 0]

NoSnapshot == [invitations |-> EmptyColl, metrics |-> EmptyColl]

Snapshot == [invitations |-> invitations, metrics |-> metrics]

InFlight(r) == pc[r] # "idle"

NoDay == [tenantId |-> <<>>, accountId |-> <<>>, date |-> <<>>]

\* no request has arrived
HandlerIdle ==
    /\ invitations = EmptyColl
    /\ metrics = EmptyColl
    /\ clock = 0
    /\ runs = 0
    /\ pc = [r \in Reqs |-> "idle"]
    /\ query = [r \in Reqs |-> NoQuery]
    /\ mockInvitations = [r \in Reqs |-> <<>>]
    /\ rawInvitations = [r \in Reqs |-> <<>>]
    /\ invitationResults = [r \in Reqs |-> <<>>]
    /\ zeroFilledCounts = [r \in Reqs |-> <<>>]
    /\ previousPeriod = [r \in Reqs |-> NoPeriod]
    /\ out = <<>>
    /\ pre = [r \in Reqs |-> NoSnapshot]
    /\ writes = [r \in Reqs |-> 0]
    /\ alone = [r \in Reqs |-> TRUE]
    /\ conc = [r \in Reqs |-> "none"]
    /\ base = [r \in Reqs |-> NoSnapshot]
    /\ prior = [r \in Reqs |-> <<>>]
    /\ lastDone = <<>>

\* the generator is not being stepped through
GeneratorIdle ==
    /\ dayArgs = NoDay
    /\ hashStr = <<>>
    /\ hashIndex = 0
    /\ hashAcc = <<0, 0>>
    /\ dayInvitations = <<>>

Init == HandlerIdle /\ GeneratorIdle

\* ------------------------------------------------------------------------
\* The handler, one action per suspension point
\* ------------------------------------------------------------------------

\* what is known of invocation r when it answers
Response(r, q, code, body, msg) ==
    <<[req |-> r, query |-> q, status |-> code, data |-> body, details |-> msg,
       step |-> pc[r],
       results |-> invitationResults[r], period |-> previousPeriod[r],
       pre |-> pre[r], writes |-> writes[r], alone |-> alone[r], conc |-> conc[r],
       base |-> base[r], prior |-> prior[r]]>>

\* the invocation has returned: its locals are gone
Cleared(r) ==
    /\ pc' = [pc EXCEPT ![r] = "idle"]
    /\ query' = [query EXCEPT ![r] = NoQuery]
    /\ mockInvitations' = [mockInvitations EXCEPT ![r] = <<>>]
    /\ rawInvitations' = [rawInvitations EXCEPT ![r] = <<>>]
    /\ invitationResults' = [invitationResults EXCEPT ![r] = <<>>]
    /\ zeroFilledCounts' = [zeroFilledCounts EXCEPT ![r] = <<>>]
    /\ previousPeriod' = [previousPeriod EXCEPT ![r] = NoPeriod]
    /\ pre' = [pre EXCEPT ![r] = NoSnapshot]
    /\ writes' = [writes EXCEPT ![r] = 0]
    /\ alone' = [alone EXCEPT ![r] = TRUE]
    /\ conc' = [conc EXCEPT ![r] = "none"]
    /\ base' = [base EXCEPT ![r] = NoSnapshot]
    /\ prior' = [prior EXCEPT ![r] = <<>>]

\* the other invocations in flight see r commit under them
AloneAfter(r) == [o \in Reqs |-> IF o # r /\ InFlight(o) THEN FALSE ELSE alone[o]]

\* r arrives with q: "same" once an invocation has shared its flight with
\* others for the same query only, "other" once with one for another query
ConcAfter(r, q) ==
    [o \in Reqs |->
        IF o = r
        THEN (IF \A p \in Reqs : ~InFlight(p) THEN "none"
              ELSE IF \A p \in Reqs : InFlight(p) => (query[p] = q /\ conc[p] # "other")
              THEN "same" ELSE "other")
        ELSE IF ~InFlight(o) THEN conc[o]
        ELSE IF query[o] = q /\ conc[o] # "other" THEN "same" ELSE "other"]

BaseAfter(r, q) ==
    [base EXCEPT ![r] =
        IF \E p \in Reqs : InFlight(p) /\ query[p] = q
        THEN base[CHOOSE p \in Reqs : InFlight(p) /\ query[p] = q]
        ELSE Snapshot]

\* lines 116-146: validation; for a valid request the generator (its timer
\* touches nothing shared) and the batch of raw invitations, up to the commit
Receive(r, q) ==
    /\ pc[r] = "idle"
    /\ r = "r2" => InFlight("r1")
    /\ runs < MaxRuns
    /\ runs' = runs + 1
    /\ LET v == Validation[q]
       IN  CASE v.outcome = "ok" ->
                   /\ pc' = [pc EXCEPT ![r] = "writeRaw"]
                   /\ query' = [query EXCEPT ![r] = q]
                   /\ mockInvitations' = [mockInvitations EXCEPT ![r] = Fetched[q]]
                   /\ rawInvitations' = [rawInvitations EXCEPT ![r] = Generated[q]]
                   /\ pre' = [pre EXCEPT ![r] = Snapshot]
                   /\ prior' = [prior EXCEPT ![r] = lastDone]
                   /\ out' = <<>>
                   /\ conc' = ConcAfter(r, q)
                   /\ base' = BaseAfter(r, q)
                   /\ UNCHANGED <<invitationResults, zeroFilledCounts, previousPeriod,
                                  writes, alone>>
             [] v.outcome = "invalid" ->
                   /\ out' = Response(r, q, 400, <<>>, v.error)
                   /\ UNCHANGED <<pc, locals, history>>
             [] v.outcome = "throw" ->
                   /\ out' = Response(r, q, 500, <<>>, v.error)
                   /\ UNCHANGED <<pc, locals, history>>
    /\ UNCHANGED <<store, lastDone, generator>>

\* line 146: the batch of writeRawInvitations commits
WriteRaw(r) ==
    /\ pc[r] = "writeRaw"
    /\ invitations' = writeRawInvitations(invitations, rawInvitations[r])
    /\ pc' = [pc EXCEPT ![r] = "query"]
    /\ writes' = [writes EXCEPT ![r] = @ + 1]
    /\ alone' = AloneAfter(r)
    /\ lastDone' = <<>>
    /\ out' = <<>>
    /\ UNCHANGED <<metrics, clock, runs, locals, pre, conc, base, prior, generator>>

\* variant: the counts are taken from the batch the generator produced
RangeQuery_FromMemory(r) ==
    /\ pc[r] = "query"
    /\ LET q       == query[r]
           results == queryInvitationsByDateRange(
                          writeRawInvitations(EmptyColl, rawInvitations[r]),
                          q.tenantId.str, q.accountId.str, q.from.str, q.to.str)
       IN  /\ invitationResults' = [invitationResults EXCEPT ![r] = results]
           /\ zeroFilledCounts' = [zeroFilledCounts EXCEPT ![r] =
                  createZeroFilledCounts(eachDayInclusive(q.from.str, q.to.str), results)]
    /\ pc' = [pc EXCEPT ![r] = "writeRollups"]
    /\ out' = <<>>
    /\ UNCHANGED <<store, runs, query, mockInvitations, rawInvitations, previousPeriod,
                   history, lastDone, generator>>

\* lines 151-169: the range query resolves; counts, zero fill, rollups
RangeQuery(r) ==
    /\ pc[r] = "query"
    /\ LET q       == query[r]
           results == queryInvitationsByDateRange(invitations, q.tenantId.str,
                          q.accountId.str, q.from.str, q.to.str)
       IN  /\ invitationResults' = [invitationResults EXCEPT ![r] = results]
           /\ zeroFilledCounts' = [zeroFilledCounts EXCEPT ![r] =
                  createZeroFilledCounts(eachDayInclusive(q.from.str, q.to.str), results)]
    /\ pc' = [pc EXCEPT ![r] = "writeRollups"]
    /\ out' = <<>>
    /\ UNCHANGED <<store, runs, query, mockInvitations, rawInvitations, previousPeriod,
                   history, lastDone, generator>>

\* lines 172-180: the batch of writeDailyRollups commits; the comparison
\* window is computed
WriteRollups(r) ==
    /\ pc[r] = "writeRollups"
    /\ clock' = clock + 1
    /\ metrics' = writeDailyRollups(metrics, query[r].tenantId.str, query[r].accountId.str,
                                    RollupsOf(zeroFilledCounts[r]), clock')
    /\ previousPeriod' = [previousPeriod EXCEPT ![r] =
           [from |-> previousFromISO(query[r].from.str),
            to   |-> previousToISO(query[r].from.str)]]
    /\ pc' = [pc EXCEPT ![r] = "compare"]
    /\ writes' = [writes EXCEPT ![r] = @ + 1]
    /\ alone' = AloneAfter(r)
    /\ lastDone' = <<>>
    /\ out' = <<>>
    /\ UNCHANGED <<invitations, runs, query, mockInvitations, rawInvitations,
                   invitationResults, zeroFilledCounts, pre, conc, base, prior, generator>>

\* lines 176-201: the comparison query resolves, the response is sent
Compare(r) ==
    /\ pc[r] = "compare"
    /\ LET q    == query[r]
           ppc  == getTotalInvitationsInPeriod(invitations, q.tenantId.str, q.accountId.str,
                       previousPeriod[r].from, previousPeriod[r].to)
           body == ResponseData(zeroFilledCounts[r], ppc)
       IN  /\ out' = Response(r, q, 200, body, "")
           /\ lastDone' = IF alone[r] THEN <<[query |-> q, data |-> body]>> ELSE <<>>
    /\ Cleared(r)
    /\ UNCHANGED <<store, runs, generator>>

\* variant: the catch block undoes what the run has written
StoreError_Undo(r) ==
    /\ pc[r] \in {"writeRaw", "query", "writeRollups", "compare"}
    /\ out' = Response(r, query[r], 500, <<>>, "store error")
    /\ Cleared(r)
    /\ invitations' = pre[r].invitations
    /\ metrics' = pre[r].metrics
    /\ UNCHANGED <<clock, runs, lastDone, generator>>

\* lines 203-212: a store call rejects; the catch block answers 500
StoreError(r) ==
    /\ pc[r] \in {"writeRaw", "query", "writeRollups", "compare"}
    /\ out' = Response(r, query[r], 500, <<>>, "store error")
    /\ Cleared(r)
    /\ UNCHANGED <<store, runs, lastDone, generator>>

Next ==
    \/ \E r \in Reqs, q \in Queries : Receive(r, q)
    \/ \E r \in Reqs : WriteRaw(r)
    \/ \E r \in Reqs : RangeQuery(r)
    \/ \E r \in Reqs : WriteRollups(r)
    \/ \E r \in Reqs : Compare(r)
    \/ \E r \in Reqs : StoreError(r)

Spec == Init /\ [][Next]_vars

\* ------------------------------------------------------------------------
\* The generator of one day, simpleHash stepped through its loop
\* ------------------------------------------------------------------------

\* "1wszbyu": the seed "1wszbyu-a1-2025-03-01" leaves the accumulator at -2^31
Tenant1w == <<49, 119, 115, 122, 98, 121, 117>>

GenTenants == {Tenant5r, Tenant74, TenantA0, TenantBu, Tenant1w}

GenDates == {Day1, Day2}

\* getDailyInvitationCount is entered: simpleHash(seed) is about to loop
GenInit ==
    /\ HandlerIdle
    /\ \E t \in GenTenants, d \in GenDates :
           /\ dayArgs = [tenantId |-> t, accountId |-> AccountA1, date |-> d]
           /\ hashStr = t \o Dash \o AccountA1 \o Dash \o d
    /\ hashIndex = 0
    /\ hashAcc = <<0, 0>>
    /\ dayInvitations = <<>>

\* mock.ts lines 21-25: one iteration of the loop of simpleHash
HashChar ==
    /\ dayInvitations = <<>>
    /\ hashIndex < Len(hashStr)
    /\ hashAcc' = HashStep(hashAcc, hashStr[hashIndex + 1])
    /\ hashIndex' = hashIndex + 1
    /\ UNCHANGED <<store, runs, pc, locals, out, history, lastDone, dayArgs, hashStr,
                   dayInvitations>>

\* mock.ts lines 26, 38-39 and 50-85: simpleHash returns, the count is taken
\* and the invitations of the day are generated
GenerateDay ==
    /\ dayInvitations = <<>>
    /\ hashIndex = Len(hashStr)
    /\ LET hash  == Abs32(hashAcc)
           count == HashMod(hash, 6)
       IN  dayInvitations' =
               <<[hash |-> hash, count |-> count,
                  invitations |-> generateInvitationsForDay(dayArgs.tenantId,
                                      dayArgs.accountId, dayArgs.date, count)]>>
    /\ UNCHANGED <<store, runs, pc, locals, out, history, lastDone, dayArgs, hashStr,
                   hashIndex, hashAcc>>

GenNext == HashChar \/ GenerateDay

GenSpec == GenInit /\ [][GenNext]_vars

\* ------------------------------------------------------------------------
\* Properties
\* ------------------------------------------------------------------------

Sent == out # <<>>

Ok == Sent /\ out[1].status = 200

\* the calendar, stated apart from the Date arithmetic above
IsLeapYear(y) == (y % 4 = 0 /\ y % 100 # 0) \/ y % 400 = 0

DaysInMonth(y, m) ==
    IF m = 2 THEN (IF IsLeapYear(y) THEN 29 ELSE 28)
    ELSE IF m \in {4, 6, 9, 11} THEN 30 ELSE 31

\* s is YYYY-MM-DD and names a day of the calendar
RealCalendarDay(s) ==
    /\ MatchesDatePattern(s)
    /\ NumAt(s, 6, 7) \in 1..12
    /\ NumAt(s, 9, 10) \in 1..DaysInMonth(NumAt(s, 1, 4), NumAt(s, 6, 7))

\* the day after a calendar day, by the calendar
DayAfter(s) ==
    LET y == NumAt(s, 1, 4)
        m == NumAt(s, 6, 7)
        d == NumAt(s, 9, 10)
    IN  IF d < DaysInMonth(y, m) THEN DateStr(y, m, d + 1)
        ELSE IF m < 12 THEN DateStr(y, m + 1, 1)
        ELSE DateStr(y + 1, 1, 1)

IsString(v) == v.type = "string" /\ v.str # <<>>

\* the request fails validation as section 6 of the specification has it
FailsValidation(q) ==
    \/ ~IsString(q.tenantId)
    \/ ~IsString(q.accountId)
    \/ ~IsString(q.from) \/ ~RealCalendarDay(q.from.str)
    \/ ~IsString(q.to) \/ ~RealCalendarDay(q.to.str)
    \/ StrLess(q.to.str, q.from.str)

\* C3 (as claimed): every request that fails validation is answered 400 and
\* no batch is committed for it.  Violated: a date such as 2025-02-32 makes
\* isValidISODate raise inside the try block, and the answer is 500.
C3_InvalidAnswered400 ==
    (Sent /\ FailsValidation(out[1].query)) =>
        /\ out[1].status = 400
        /\ out[1].writes = 0

\* C4: a successful response has one entry per day of the range, ascending
\* from `from` to `to`, and a day the range query returned nothing for has
\* value 0.
C4_ZeroFilledRange ==
    Ok =>
        LET d == out[1].data
            q == out[1].query
        IN  /\ Len(d) >= 1
            /\ d[1].date = q.from.str
            /\ d[Len(d)].date = q.to.str
            /\ \A k \in 1..(Len(d) - 1) : d[k + 1].date = DayAfter(d[k].date)
            /\ \A k \in 1..Len(d) :
                   (\A j \in 1..Len(out[1].results) : out[1].results[j].date # d[k].date)
                       => d[k].value = 0

\* a two-day response whose first day the query returned nothing for
C4_Witness ==
    /\ Ok
    /\ Len(out[1].data) = 2
    /\ out[1].data[1].value = 0
    /\ out[1].data[2].value > 0
    /\ Len(out[1].results) = 1

\* C7: previousPeriodComparison is on the first element and on no other;
\* every element has status "ok" and a value >= 0.
C7_ComparisonOnFirstOnly ==
    Ok =>
        \A k \in 1..Len(out[1].data) :
            /\ ("previousPeriodComparison" \in DOMAIN out[1].data[k]) <=> (k = 1)
            /\ out[1].data[k].status = "ok"
            /\ out[1].data[k].value >= 0

C7_Witness ==
    /\ Ok
    /\ Len(out[1].data) = 2
    /\ out[1].data[2].value > 0

\* ------------------------------------------------------------------------
\* Days and instants counted by the calendar
\* ------------------------------------------------------------------------

RECURSIVE DaysBeforeYear(_)
DaysBeforeYear(y) ==
    IF y <= 2000 THEN 0
    ELSE DaysBeforeYear(y - 1) + (IF IsLeapYear(y - 1) THEN 366 ELSE 365)

RECURSIVE DaysBeforeMonth(_, _)
DaysBeforeMonth(y, m) ==
    IF m <= 1 THEN 0 ELSE DaysBeforeMonth(y, m - 1) + DaysInMonth(y, m - 1)

\* days from 2000-01-01 to the calendar day s
DayNumber(s) ==
    DaysBeforeYear(NumAt(s, 1, 4)) + DaysBeforeMonth(NumAt(s, 1, 4), NumAt(s, 6, 7))
        + NumAt(s, 9, 10) - 1

\* minutes from 2000-01-01T00:00Z to the instant of a receivedAt
Instant(ts) ==
    DayNumber(SubSeq(ts, 1, 10)) * 1440 + NumAt(ts, 12, 13) * 60 + NumAt(ts, 15, 16)

\* the stored events of the tenant and account received from UTC midnight of
\* `from` up to, not including, UTC midnight of the day after `to`
EventsWithin(coll, tenantId, accountId, from, to) ==
    {id \in DOMAIN coll :
        /\ coll[id].tenantId = tenantId
        /\ coll[id].accountId = accountId
        /\ Instant(coll[id].receivedAt) >= DayNumber(from) * 1440
        /\ Instant(coll[id].receivedAt) < (DayNumber(to) + 1) * 1440}

\* the per-day counts of a collection of rollups
RollupCounts(coll) == [p \in DOMAIN coll |-> coll[p].invitationsCount]

\* the response answers a run that directly follows an undisturbed run of the
\* same request and was itself undisturbed
Rerun ==
    /\ Ok
    /\ out[1].alone
    /\ out[1].prior # <<>>
    /\ out[1].prior[1].query = out[1].query

\* C1: after the same range is ingested twice in succession the store holds
\* the event documents it held after the first ingestion (same keys, same
\* fields) and the same invitationsCount for every day.
C1_SecondIngestionChangesNothing ==
    Rerun =>
        /\ invitations = out[1].pre.invitations
        /\ RollupCounts(metrics) = RollupCounts(out[1].pre.metrics)

C1_Witness ==
    /\ Rerun
    /\ invitations # EmptyColl
    /\ \E p \in DOMAIN metrics : metrics[p].invitationsCount > 0

\* the collections one run of query q alone leaves, started from snapshot b
SequentialRun(b, q) ==
    LET t     == q.tenantId.str
        a     == q.accountId.str
        inv   == writeRawInvitations(b.invitations, Generated[q])
        res   == queryInvitationsByDateRange(inv, t, a, q.from.str, q.to.str)
        zero  == createZeroFilledCounts(eachDayInclusive(q.from.str, q.to.str), res)
    IN  [invitations |-> inv,
         metrics     |-> writeDailyRollups(b.metrics, t, a, RollupsOf(zero), 0)]

\* the response answers the last of several invocations of one query that
\* were in flight together, and no other request came in between
LastOfConcurrent ==
    /\ Ok
    /\ out[1].conc = "same"
    /\ \A r \in Reqs : ~InFlight(r)

\* C2: when requests for the same (tenantId, accountId, from, to) run
\* concurrently, whatever the order of their store calls, the store they leave
\* once all have completed has the event documents and the rollup counts one
\* sequential run of the request leaves.
C2_ConcurrentConverges ==
    LastOfConcurrent =>
        LET seq == SequentialRun(out[1].base, out[1].query)
        IN  /\ invitations = seq.invitations
            /\ RollupCounts(metrics) = RollupCounts(seq.metrics)

\* both invocations committed their batches, interleaved
C2_Witness ==
    /\ LastOfConcurrent
    /\ ~out[1].alone
    /\ out[1].writes = 2
    /\ clock = 2
    /\ invitations # EmptyColl

\* a range query of invocation r resolves
RangeQueryStep(r) == pc[r] = "query" /\ pc'[r] = "writeRollups"

\* the comparison query of invocation r resolves
CompareStep(r) == pc[r] = "compare" /\ pc'[r] = "idle" /\ out' # <<>> /\ out'[1].status = 200

\* C5: queryInvitationsByDateRange counts a stored event of the tenant and
\* account if and only if it was received in [UTC midnight of from, UTC
\* midnight of the day after to): per day and in total, for the range query
\* and for the comparison query.
C5_RangeBoundary ==
    [][\A r \in Reqs :
          /\ RangeQueryStep(r) =>
                LET q       == query[r]
                    counted == EventsWithin(invitations, q.tenantId.str, q.accountId.str,
                                            q.from.str, q.to.str)
                    results == invitationResults'[r]
                IN  /\ SumCounts(results) = Cardinality(counted)
                    /\ \A k \in 1..Len(results) :
                           results[k].count = Cardinality({id \in counted :
                               SubSeq(invitations[id].receivedAt, 1, 10) = results[k].date})
          /\ CompareStep(r) =>
                out'[1].data[1].previousPeriodComparison =
                    Cardinality(EventsWithin(invitations, query[r].tenantId.str,
                        query[r].accountId.str, previousPeriod[r].from, previousPeriod[r].to))
      ]_vars

\* an event received at UTC midnight of `to` is counted by the range query
\* and, `to` being the day after the comparison window, not by the comparison
C5_Witness ==
    /\ Ok
    /\ out[1].alone
    /\ out[1].query.from = out[1].query.to
    /\ SumCounts(out[1].results) = 2
    /\ out[1].data[1].previousPeriodComparison = 0
    /\ \E id \in DOMAIN invitations :
           /\ invitations[id].tenantId = out[1].query.tenantId.str
           /\ invitations[id].receivedAt = out[1].query.to.str \o TimeSuffix
           /\ out[1].query.to.str = DayAfter(out[1].period.to)

\* C6: previousPeriodComparison is the number of stored events of the tenant
\* and account whose UTC day is one of the 7 days from - 7 .. from - 1; the
\* window is those 7 days whatever the range, and ends before `from`.
C6_ComparisonWindow ==
    Ok =>
        LET q      == out[1].query
            first  == DayNumber(q.from.str) - 7
            last   == DayNumber(q.from.str) - 1
            inWin  == {id \in DOMAIN invitations :
                          /\ invitations[id].tenantId = q.tenantId.str
                          /\ invitations[id].accountId = q.accountId.str
                          /\ DayNumber(SubSeq(invitations[id].receivedAt, 1, 10))
                                 \in first..last}
        IN  /\ out[1].data[1].previousPeriodComparison = Cardinality(inWin)
            /\ RealCalendarDay(out[1].period.from)
            /\ RealCalendarDay(out[1].period.to)
            /\ DayNumber(out[1].period.from) = first
            /\ DayNumber(out[1].period.to) = last
            /\ DayNumber(out[1].period.to) - DayNumber(out[1].period.from) + 1 = 7
            /\ DayNumber(out[1].period.to) < DayNumber(q.from.str)

\* a comparison that counts events ingested by an earlier request
C6_Witness ==
    /\ Ok
    /\ out[1].data[1].previousPeriodComparison > 0
    /\ out[1].query.from.str = Day2

\* C8 (as claimed): an event about to be written shares its externalId with a
\* stored event, or with an event of another batch, only if both are of the
\* same tenant and account.  Violated: tenants "5r" and "74" hash alike, and
\* the id holds nothing else of the tenant.
C8_DistinctExternalIds ==
    \A r \in Reqs : \A k \in 1..Len(rawInvitations[r]) :
        LET e == rawInvitations[r][k]
        IN  /\ e.externalId \in DOMAIN invitations =>
                   /\ invitations[e.externalId].tenantId = e.tenantId
                   /\ invitations[e.externalId].accountId = e.accountId
            /\ \A o \in Reqs : \A j \in 1..Len(rawInvitations[o]) :
                   rawInvitations[o][j].externalId = e.externalId =>
                       /\ rawInvitations[o][j].tenantId = e.tenantId
                       /\ rawInvitations[o][j].accountId = e.accountId

\* C9 (as claimed): a stored event document is never deleted and none of its
\* fields ever changes.  Violated: the batch of tenant "74" is written over
\* the documents of tenant "5r" (see C8).
C9_EventsImmutable ==
    [][\A id \in DOMAIN invitations :
          id \in DOMAIN invitations' /\ invitations'[id] = invitations[id]]_vars

\* C10: the same request run twice in succession is answered with the same
\* per-day values and the same previousPeriodComparison both times.
C10_SameAnswerTwice ==
    Rerun =>
        LET d == out[1].data
            p == out[1].prior[1].data
        IN  /\ Len(d) = Len(p)
            /\ \A k \in 1..Len(d) : d[k].date = p[k].date /\ d[k].value = p[k].value
            /\ d[1].previousPeriodComparison = p[1].previousPeriodComparison

C10_Witness ==
    /\ Rerun
    /\ \E k \in 1..Len(out[1].data) : out[1].data[k].value > 0
    /\ out[1].prior[1].data[1].previousPeriodComparison = 0

\* the response is the 500 of a run one of whose store calls failed
Failed == Sent /\ out[1].status = 500 /\ out[1].step # "idle"

\* C11: when a store call of a run fails the request is answered with the 500
\* error response and the invocation is over, so no later step executes: the
\* run has committed exactly the batches of the steps before the failed one,
\* and, nobody else writing meanwhile, the store holds what those steps wrote
\* and nothing of the later ones.
C11_FailureAborts ==
    Failed =>
        LET q   == out[1].query
            seq == SequentialRun(out[1].pre, q)
        IN  /\ out[1].data = <<>>
            /\ pc[out[1].req] = "idle"
            /\ out[1].writes = (CASE out[1].step = "writeRaw" -> 0
                                  [] out[1].step = "query" -> 1
                                  [] out[1].step = "writeRollups" -> 1
                                  [] out[1].step = "compare" -> 2)
            /\ out[1].alone =>
                   /\ invitations = (IF out[1].writes >= 1 THEN seq.invitations
                                     ELSE out[1].pre.invitations)
                   /\ RollupCounts(metrics) =
                          (IF out[1].writes = 2 THEN RollupCounts(seq.metrics)
                           ELSE RollupCounts(out[1].pre.metrics))

\* the rollup batch fails after the event batch has committed events
C11_Witness ==
    /\ Failed
    /\ out[1].step = "writeRollups"
    /\ out[1].alone
    /\ invitations # out[1].pre.invitations
    /\ metrics = out[1].pre.metrics

DateValidated(v) ==
    /\ Sent
    /\ IsString(out[1].query.tenantId)
    /\ IsString(out[1].query.accountId)
    /\ IsString(out[1].query.from)
    /\ IsString(out[1].query.to)
    /\ v \in {out[1].query.from, out[1].query.to}

\* C13 (as claimed): for a string of the shape dddd-dd-dd isValidISODate
\* returns, without raising, true if the string names a calendar day and
\* false if it does not.  Violated: for day 32 or month 13 the parsed Date is
\* invalid and toISOString raises a RangeError.
C13_ValidISODateReturns ==
    \A v \in {out[k].query.from : k \in 1..Len(out)}
             \cup {out[k].query.to : k \in 1..Len(out)} :
        (DateValidated(v) /\ MatchesDatePattern(v.str)) =>
            /\ ~ThrowsIsValidISODate(v.str)
            /\ isValidISODate(v.str) <=> RealCalendarDay(v.str)

\* the rollup batch of invocation r commits
WriteRollupsStep(r) == pc[r] = "writeRollups" /\ pc'[r] = "compare"

\* the steps of a run in the order the handler takes them
StepOrder ==
    {<<"idle", "writeRaw">>, <<"writeRaw", "query">>, <<"query", "writeRollups">>,
     <<"writeRollups", "compare">>, <<"compare", "idle">>}

\* C14: a run takes its steps in the order event batch, range query, rollup
\* batch, comparison query, response (or leaves them by the error response);
\* the per-day counts are those of the events the store holds for the tenant
\* and account when the range query resolves, and the rollups written and the
\* values answered are those counts.
C14_StoreIsSourceOfTruth ==
    [][\A r \in Reqs :
          /\ pc'[r] # pc[r] =>
                \/ <<pc[r], pc'[r]>> \in StepOrder
                \/ pc'[r] = "idle" /\ out' # <<>> /\ out'[1].status = 500
          /\ (out' # <<>> /\ out'[1].status = 200 /\ out'[1].req = r) =>
                pc[r] = "compare" /\ writes[r] = 2
          /\ RangeQueryStep(r) =>
                /\ writes[r] = 1
                /\ \A k \in 1..Len(zeroFilledCounts'[r]) :
                       zeroFilledCounts'[r][k].count =
                           Cardinality(EventsWithin(invitations, query[r].tenantId.str,
                               query[r].accountId.str, zeroFilledCounts'[r][k].date,
                               zeroFilledCounts'[r][k].date))
          /\ WriteRollupsStep(r) =>
                \A k \in 1..Len(zeroFilledCounts[r]) :
                    LET path == RollupPath(query[r].tenantId.str, query[r].accountId.str,
                                           zeroFilledCounts[r][k].date)
                    IN  /\ path \in DOMAIN metrics'
                        /\ metrics'[path].invitationsCount = zeroFilledCounts[r][k].count
          /\ CompareStep(r) =>
                /\ Len(out'[1].data) = Len(zeroFilledCounts[r])
                /\ \A k \in 1..Len(zeroFilledCounts[r]) :
                       /\ out'[1].data[k].date = zeroFilledCounts[r][k].date
                       /\ out'[1].data[k].value = zeroFilledCounts[r][k].count
      ]_vars

\* a response whose value for a day is not the number of events the run's
\* generator produced for it: another run took the documents in between
C14_Witness ==
    /\ Ok
    /\ \E k \in 1..Len(out[1].data) :
           /\ out[1].data[k].value = 0
           /\ \E j \in 1..Len(Generated[out[1].query]) :
                  SubSeq(Generated[out[1].query][j].receivedAt, 1, 10) = out[1].data[k].date

\* C15: the rollup batch of a run creates or changes rollup records only at
\* the paths of its tenant and account for the days from `from` to `to`; no
\* other step changes a rollup record; no step deletes an event document or a
\* rollup record.
C15_RollupsOnlyInWindow ==
    [][/\ DOMAIN invitations \subseteq DOMAIN invitations'
       /\ DOMAIN metrics \subseteq DOMAIN metrics'
       /\ (\A r \in Reqs : ~WriteRollupsStep(r)) => metrics' = metrics
       /\ \A r \in Reqs :
             WriteRollupsStep(r) =>
                 \A p \in DOMAIN metrics' :
                     (p \notin DOMAIN metrics \/ metrics'[p] # metrics[p]) =>
                         /\ p = RollupPath(query[r].tenantId.str, query[r].accountId.str,
                                           metrics'[p].date)
                         /\ RealCalendarDay(metrics'[p].date)
                         /\ DayNumber(query[r].from.str) <= DayNumber(metrics'[p].date)
                         /\ DayNumber(metrics'[p].date) <= DayNumber(query[r].to.str)
      ]_vars

\* a rollup batch has just committed beside an older rollup record
C15_Witness ==
    /\ \E r \in Reqs : pc[r] = "compare"
    /\ \E p \in DOMAIN metrics : metrics[p].updatedAt = clock
    /\ \E p \in DOMAIN metrics : metrics[p].updatedAt < clock
    /\ lastDone = <<>>
    /\ out = <<>>

\* ------------------------------------------------------------------------
\* The generated day
\* ------------------------------------------------------------------------

\* the pair is an integer from 0 to 2^31
NonNegativeHash(h) ==
    /\ h[1] \in 0..32768
    /\ h[2] \in 0..(Half - 1)
    /\ h[1] = 32768 => h[2] = 0

\* the seed of invitation i of the generated day
InvitationSeed(i) ==
    dayArgs.tenantId \o Dash \o dayArgs.accountId \o Dash \o dayArgs.date \o Dash \o DecStr(i)

\* C16: whatever the seed, also one that leaves the accumulator at -2^31,
\* simpleHash returns an integer that is not negative; the count of the day
\* is from 0 to 5, that many invitations are generated, and each has an hour
\* below 24, a minute below 60 and a receivedAt on the day it was generated
\* for.
C16_HashNonNegativeRanges ==
    dayInvitations # <<>> =>
        LET g == dayInvitations[1]
        IN  /\ NonNegativeHash(g.hash)
            /\ g.hash = simpleHash(hashStr)
            /\ g.count \in 0..5
            /\ g.count = getDailyInvitationCount(dayArgs.tenantId, dayArgs.accountId,
                                                 dayArgs.date)
            /\ Len(g.invitations) = g.count
            /\ \A k \in 1..Len(g.invitations) :
                   LET ts == g.invitations[k].receivedAt
                   IN  /\ NonNegativeHash(simpleHash(InvitationSeed(k - 1)))
                       /\ NonNegativeHash(simpleHash(HourDash \o InvitationSeed(k - 1)))
                       /\ NonNegativeHash(simpleHash(MinuteDash \o InvitationSeed(k - 1)))
                       /\ Len(ts) = 24
                       /\ SubSeq(ts, 1, 10) = dayArgs.date
                       /\ \A i \in {12, 13, 15, 16} : IsDigit(ts[i])
                       /\ NumAt(ts, 12, 13) \in 0..23
                       /\ NumAt(ts, 15, 16) \in 0..59
                       /\ Instant(ts) >= DayNumber(dayArgs.date) * 1440
                       /\ Instant(ts) < (DayNumber(dayArgs.date) + 1) * 1440

\* the loop ended with the accumulator at -2^31 and two invitations were
\* generated for the day
C16_Witness ==
    /\ dayInvitations # <<>>
    /\ hashIndex = Len(hashStr)
    /\ hashAcc = <<32768, 0>>
    /\ dayInvitations[1].hash = <<32768, 0>>
    /\ dayInvitations[1].count = 2
    /\ Len(dayInvitations[1].invitations) = 2

\* ------------------------------------------------------------------------
\* Rollups against the stored events
\* ------------------------------------------------------------------------

\* every request so far was run undisturbed to its answer, the last one just
\* now (two requests at most are told apart)
AllRunsCompleted ==
    /\ Ok
    /\ out[1].alone
    /\ \A r \in Reqs : ~InFlight(r)
    /\ runs = 1 \/ (runs = 2 /\ out[1].prior # <<>>)

\* C17 (as claimed): after completed runs every stored rollup of a tenant,
\* account and date counts the events now stored with that tenant and account
\* and a receivedAt on that date.  Violated: the run of tenant "74" rewrites
\* the event of tenant "5r" as its own (see C8), and the rollup of "5r" for
\* 2025-03-01 still counts it.
C17_RollupsMatchEvents ==
    AllRunsCompleted =>
        \A t \in GenTenants, d \in GenDates :
            RollupPath(t, AccountA1, d) \in DOMAIN metrics =>
                metrics[RollupPath(t, AccountA1, d)].invitationsCount
                    = Cardinality(EventsWithin(invitations, t, AccountA1, d, d))

====
